---- MODULE Spec2Model ----
(***************************************************************************)
(* Historical backfill engine of crypto-history.                           *)
(*                                                                         *)
(* The model follows OHLCV_History.fetch / fetch_timeframe                  *)
(* (src/src/exchanges/coinbase/ohlcv_history.py), the multi-product loops  *)
(* of OHLCV_History.fetch_many (src/src/utils/exchange/ohlcv_history.py)   *)
(* and CoinbaseCandleHistory.fetch (src/src/coinbase_candle_history.py),   *)
(* and binary_search_first_occurrence_async                                *)
(* (src/src/utils/algorithms/binary_search.py).                            *)
(*                                                                         *)
(* Time is in integer epoch seconds, counted from the default start date.  *)
(* A candle is represented by its timestamp (candle[0]); the five price    *)
(* columns are carried through the engine untouched and are left out.      *)
(* MAX_CANDLES is 300 in the source; the model runs it with a small value  *)
(* so that a date range of a few minutes spans several request windows.    *)
(* A calendar month is a block of MonthLen seconds.                        *)
(*                                                                         *)
(* The module also holds the first-occurrence search on its own            *)
(* (SearchSpec) and the live order book of                                 *)
(* src/src/exchanges/coinbase/order_book.py (BookSpec, SnapshotSpec). Each *)
(* specification moves its own variables and leaves the others alone.      *)
(***************************************************************************)
EXTENDS Integers, Sequences, FiniteSets, TLC

\* ---------------------------------------------------------------- bounds
MAX_CANDLES == 2
\* length of a calendar month, in seconds
MonthLen == 200
\* wall clock (datetime.now) during the run
Now == 310
\* largest end_date a caller passes
MaxEnd == 240
\* length of the date range of the later products
ShortSpan == 6
\* number of lagging responses the exchange gives in one run
MaxStale == 1

\* The search on its own is called over ranges within 0..SearchSpan.
SearchSpan == 6
\* depth argument of the order book: levels kept on each side
Depth == 2
\* number of snapshots the consumer of the order book takes
MaxSnaps == 1
\* frequency argument of the order book: seconds slept before a snapshot
Frequency == 2
\* the wall clock of a subscription runs from 0 to MaxClock
MaxClock == 8
\* TEMPORARY_FILE_COMPRESSION_THRESHOLD_IN_BYTES, counted in rows (10 MiB)
Threshold == 2
\* storage errors and interruptions met by the store in one run
MaxFailures == 1
\* batches CoinDB.store takes from its generator in one run
MaxBatches == 3

\* ------------------------------------------------- constants of the code
SecondsPerMinute == 60
DefaultGranularity == 60
MaxDepth == 32
NoneT == -1
NotFoundTs == -1

Granularities == {60}
Products == <<"BTC-USD", "ETH-USD">>

\* ------------------------------------------------------------- helpers
Max(S) == CHOOSE x \in S : \A y \in S : y <= x
Min(S) == CHOOSE x \in S : \A y \in S : x <= y

RECURSIVE Ascending(_)
Ascending(S) == IF S = {} THEN << >> ELSE <<Min(S)>> \o Ascending(S \ {Min(S)})

RECURSIVE Descending(_)
Descending(S) == IF S = {} THEN << >> ELSE <<Max(S)>> \o Descending(S \ {Max(S)})

Range(s) == {s[i] : i \in 1..Len(s)}

VARIABLES
    granularity,    \* fetch parameter: candle interval in seconds
    params,         \* fetch_many: start_date and end_date of each product
    listing,        \* exchange: first candle of each product, NoneT if unknown
    prodIdx,        \* index in Products of the product being fetched
    pc,             \* "begin", "discover", "stream", "done", "raised"
    bs_start,       \* bisection: start
    bs_end,         \* bisection: end
    bs_depth,       \* bisection: max_depth
    last_fetched,   \* cursor of the streaming loop
    finished,       \* loop flag set on reaching the current month
    out,            \* batches yielded to the consumer, in order
    lastReq,        \* the last request issued and its classified result
    notFound,       \* products for which a request was answered 404
    stale,          \* number of lagging responses given so far
    slept,          \* engine: a rate-limit delay has passed since the last request
    sessions,       \* engine: adapter sessions open
    bs_kind,        \* search on its own: "async" or "sync" version
    first_true,     \* search on its own: where its condition becomes true
    probed,         \* search on its own: timestamps probed with a true result
    bs_result,      \* search on its own: the value returned
    best_prices,    \* order book: _best_prices, the sides of each product
    snap,           \* order book: snapshots yielded, as the consumer got them
    ws,             \* order book: _client and what was called on it
    clock,          \* order book: wall clock of the subscription
    until,          \* order book: argument of snapshots(), NoneT if absent
    scratch,        \* store: rows of temp/<product>.csv
    merged,         \* store: <product>.parquet, if it exists and what it holds
    last_used,      \* store: product of _last_used_path, "" if None
    ins,            \* store: the call of insert under way
    failures,       \* store: storage errors met so far
    buffers,        \* CoinDB: rows buffered for each (symbol, month)
    delta,          \* CoinDB: rows written to the table of each (symbol, month)
    active_month,   \* CoinDB: active month of each symbol, NoneT if none
    batches         \* CoinDB: number of batches store has taken

searchVars == <<bs_kind, first_true, probed, bs_result>>

bookVars == <<best_prices, snap>>

feedVars == <<ws, clock, until>>

storeVars == <<scratch, merged, last_used, ins, failures, buffers, delta,
               active_month, batches>>

vars == <<granularity, params, listing, prodIdx, pc, bs_start,
          bs_end, bs_depth, last_fetched, finished, out, lastReq, notFound,
          stale, slept, sessions, bs_kind, first_true, probed, bs_result, best_prices,
          snap, ws, clock, until, scratch, merged, last_used, ins, failures,
          buffers, delta, active_month, batches>>

\* ------------------------------------------------------------ exchange
\* Candles the exchange holds for product p: one per granularity bucket from
\* the product's listing up to the wall clock.
Candles(p, g) ==
    IF listing[p] = NoneT THEN {}
    ELSE {t \in 0..Now : t % g = 0 /\ t >= listing[p]}

InWindow(p, g, s, e) == {t \in Candles(p, g) : s <= t /\ t <= e}

\* Bodies of a 200 response to a request for [s, e]: the candles of the
\* window, newest first (the exchange's convention) or oldest first.
HonestBodies(p, g, s, e) ==
    {Descending(InWindow(p, g, s, e)), Ascending(InWindow(p, g, s, e))}

\* A 200 response that lags behind the request: candles older than s.
StaleBodies(p, g, s) ==
    LET old == {t \in Candles(p, g) : t < s}
    IN  IF old = {} THEN {} ELSE {<<Max(old)>>}

Statuses == {200, 400, 404, 429, 500, 503}

\* What the transport does with one GET.
FailureOutcomes ==
    {[kind |-> "timeout", status |-> 0, body |-> << >>, shape |-> "none"],
     [kind |-> "client_error", status |-> 0, body |-> << >>, shape |-> "none"]}
    \cup {[kind |-> "response", status |-> s, body |-> << >>, shape |-> "text"] :
            s \in Statuses \ {200}}
    \cup {[kind |-> "response", status |-> 200, body |-> << >>, shape |-> sh] :
            sh \in {"malformed", "not_list"}}

ArrayOutcomes(bodies) ==
    {[kind |-> "response", status |-> 200, body |-> b, shape |-> "list"] : b \in bodies}

\* ------------------------------------------------------ fetch_timeframe
chunk_size == MAX_CANDLES * SecondsPerMinute

WindowEnd(start_time, end_time) ==
    IF end_time = NoneT \/ end_time <= start_time
    THEN start_time + chunk_size
    ELSE Min({start_time + chunk_size, end_time})

Tag(t) == [tag |-> t, data |-> << >>]

\* (variant) the server-error test written with > instead of >=
FetchTimeframeStrict5xx(o) ==
    IF o.kind = "timeout" THEN Tag("timeout_error")
    ELSE IF o.kind = "client_error" THEN Tag("api_failure")
    ELSE IF o.status = 404 THEN Tag("not_found")
    ELSE IF o.status = 429 THEN Tag("rate_limited")
    ELSE IF o.status > 500 THEN Tag("server_error")
    ELSE IF o.status # 200 THEN Tag("api_failure")
    ELSE IF o.shape = "malformed" THEN Tag("api_failure")
    ELSE IF o.shape # "list" THEN Tag("api_failure")
    ELSE IF o.body # << >> THEN [tag |-> "ok", data |-> o.body]
    ELSE Tag("no_data")

FetchTimeframe(o) ==
    IF o.kind = "timeout" THEN Tag("timeout_error")
    ELSE IF o.kind = "client_error" THEN Tag("api_failure")
    ELSE IF o.status = 404 THEN Tag("not_found")
    ELSE IF o.status = 429 THEN Tag("rate_limited")
    ELSE IF o.status >= 500 THEN Tag("server_error")
    ELSE IF o.status # 200 THEN Tag("api_failure")
    ELSE IF o.shape = "malformed" THEN Tag("api_failure")
    ELSE IF o.shape # "list" THEN Tag("api_failure")
    ELSE IF o.body # << >> THEN [tag |-> "ok", data |-> o.body]
    ELSE Tag("no_data")

IsDict(result) == result.tag = "ok"

\* ------------------------------------- binary_search_first_occurrence_async
\* The timestamp the current call of the search probes.
IsLeaf(start, end, max_depth) == max_depth = 0 \/ start = end

ProbePoint(start, end, max_depth) ==
    IF IsLeaf(start, end, max_depth) THEN start ELSE (start + end) \div 2

\* (variant) the halves swapped: right of the probe on true, left on false
BinarySearchStepSwapped(start, end, max_depth, c) ==
    LET middle == (start + end) \div 2
        ns == IF c THEN middle + 1 ELSE start
        ne == IF c THEN end ELSE middle - 1
    IN  IF IsLeaf(start, end, max_depth)
        THEN [kind |-> "return", value |-> IF c THEN start ELSE NotFoundTs,
              start |-> start, end |-> end, max_depth |-> max_depth]
        ELSE IF ns > ne
        THEN [kind |-> "raise", value |-> NotFoundTs,
              start |-> ns, end |-> ne, max_depth |-> max_depth - 1]
        ELSE [kind |-> "recurse", value |-> NotFoundTs,
              start |-> ns, end |-> ne, max_depth |-> max_depth - 1]

\* One call of the search, given the value c of the condition at its probe:
\* it returns a value, or recurses on a sub-range; the recursive call raises
\* ValueError at once when its start is after its end.
BinarySearchStep(start, end, max_depth, c) ==
    LET middle == (start + end) \div 2
        ns == IF c THEN start ELSE middle + 1
        ne == IF c THEN middle - 1 ELSE end
    IN  IF IsLeaf(start, end, max_depth)
        THEN [kind |-> "return", value |-> IF c THEN start ELSE NotFoundTs,
              start |-> start, end |-> end, max_depth |-> max_depth]
        ELSE IF ns > ne
        THEN [kind |-> "raise", value |-> NotFoundTs,
              start |-> ns, end |-> ne, max_depth |-> max_depth - 1]
        ELSE [kind |-> "recurse", value |-> NotFoundTs,
              start |-> ns, end |-> ne, max_depth |-> max_depth - 1]

\* One call of binary_search_first_occurrence, the synchronous version: it
\* keeps the probed middle in the sub-range, so no sub-range is empty.
BinarySearchStepSync(start, end, max_depth, c) ==
    LET middle == (end + start) \div 2
    IN  IF IsLeaf(start, end, max_depth)
        THEN [kind |-> "return", value |-> IF c THEN start ELSE NotFoundTs,
              start |-> start, end |-> end, max_depth |-> max_depth]
        ELSE [kind |-> "recurse", value |-> NotFoundTs,
              start |-> IF c THEN start ELSE middle,
              end |-> IF c THEN middle ELSE end,
              max_depth |-> max_depth - 1]

\* condition(timestamp) of fetch: the probe has data.
Condition(response) == IsDict(response) /\ response.data # << >>

\* --------------------------------------------------- streaming loop of fetch
\* (variant) the loop without its isinstance guard: subscripting a tag raises
HandleResultUnguarded(result, cursor, g) ==
    IF result.tag \in {"api_failure", "timeout_error"}
    THEN [cursor |-> cursor + MAX_CANDLES, yield |-> FALSE, raised |-> FALSE]
    ELSE IF ~IsDict(result)
    THEN [cursor |-> cursor, yield |-> FALSE, raised |-> TRUE]
    ELSE LET new_last_fetched == Max(Range(result.data))
         IN  [cursor |-> IF new_last_fetched = cursor
                         THEN new_last_fetched + g ELSE new_last_fetched,
              yield |-> TRUE, raised |-> FALSE]

\* One iteration of the while loop on the result of its request: the new
\* cursor, whether the result is yielded, and whether the iteration raises.
HandleResult(result, cursor, g) ==
    IF ~IsDict(result)
    THEN [cursor |-> cursor + g, yield |-> FALSE, raised |-> FALSE]
    ELSE IF result.tag \in {"api_failure", "timeout_error"}
    THEN [cursor |-> cursor + MAX_CANDLES, yield |-> FALSE, raised |-> FALSE]
    ELSE IF ~IsDict(result)
    THEN [cursor |-> cursor, yield |-> FALSE, raised |-> TRUE]
    ELSE IF result.data = << >>
    THEN [cursor |-> cursor + g, yield |-> FALSE, raised |-> FALSE]
    ELSE LET new_last_fetched == Max(Range(result.data))
         IN  [cursor |-> IF new_last_fetched = cursor
                         THEN new_last_fetched + g ELSE new_last_fetched,
              yield |-> TRUE, raised |-> FALSE]

MonthOf(t) == t \div MonthLen

\* (variant) a loop that never finds its cursor in the current month
InNoMonth(t) == FALSE

InCurrentMonth(t) == MonthOf(t) = MonthOf(Now)

\* ------------------------------------------------------------------ state
\* (variant) the products are iterated in an order other than the given one
productReversed == Products[Len(Products) + 1 - prodIdx]

\* the product the loop over the products is at
product == Products[prodIdx]

\* What the body of a response is, as fetch_timeframe distinguishes it.
BodyClass(o) ==
    IF o.shape # "list" THEN o.shape
    ELSE IF o.body = << >> THEN "empty_list" ELSE "filled_list"

NoReq == [product |-> "", phase |-> "none", kind |-> "none", status |-> 0,
          body |-> "none", tag |-> "none"]

\* end_date of fetch after its normalisation: missing or later than now
\* becomes now.
EndDate(q) ==
    IF q.end_form = "none" \/ q.end_date > Now THEN Now ELSE q.end_date

\* The test `end_date is None or end_date > now` compares the argument as it
\* was passed: an ISO string against a datetime raises TypeError.
EndDateRaises(q) == q.end_form = "str"

\* fetch parameters of the current product, normalised to epoch seconds
start_date == params[product].start_date
end_date == EndDate(params[product])

\* The first product is fetched over the whole range, every later one over
\* the last ShortSpan seconds of it.
ParamSets ==
    {[p \in Range(Products) |->
        IF p = Products[1]
        THEN [start_date |-> 0, end_date |-> MaxEnd, end_form |-> "datetime"]
        ELSE [start_date |-> MaxEnd - ShortSpan, end_date |-> MaxEnd,
              end_form |-> "datetime"]]}

ListingTimes == {NoneT, 60}

\* products given to the order book's constructor
BookProducts == {"BTC-USD"}

\* No search has been called on its own.
SearchIdle ==
    /\ bs_kind = "async"
    /\ first_true = 0
    /\ probed = {}
    /\ bs_result = NotFoundTs

\* The order book as its constructor leaves it, no snapshot yielded.
BookIdle ==
    /\ best_prices = [p \in BookProducts |-> [bids |-> << >>, asks |-> << >>]]
    /\ snap = << >>

\* _client as __init__ leaves it
NoClient ==
    [client |-> FALSE, transport |-> "none", subscribed |-> FALSE,
     calls |-> << >>, cause |-> "none"]

\* No subscription scope has been entered.
FeedIdle ==
    /\ ws = NoClient
    /\ clock = 0
    /\ until = NoneT

\* products written to the stores
StoreProducts == Range(Products)

\* the partition file of a product that was never compacted
NoPartition == [exists |-> FALSE, complete |-> TRUE, rows |-> << >>]

\* no call of insert under way
NoInsert ==
    [pc |-> "idle", product |-> "", data |-> << >>, target |-> "",
     ret |-> "", prev_df |-> << >>, df |-> << >>]

\* months of the partitions of CoinDB
StoreMonths == 0..1

\* OHLCV_Database and CoinDB as their constructors leave them, on an empty
\* directory.
StoreIdle ==
    /\ scratch = [p \in StoreProducts |-> << >>]
    /\ merged = [p \in StoreProducts |-> NoPartition]
    /\ last_used = ""
    /\ ins = NoInsert
    /\ failures = 0
    /\ buffers = [k \in StoreProducts \X StoreMonths |-> << >>]
    /\ delta = [k \in StoreProducts \X StoreMonths |-> << >>]
    /\ active_month = [p \in StoreProducts |-> NoneT]
    /\ batches = 0

InitWith(paramSets) ==
    /\ granularity \in Granularities
    /\ params \in paramSets
    /\ listing \in [Range(Products) -> ListingTimes]
    /\ prodIdx = 1
    /\ pc = "begin"
    /\ bs_start = 0
    /\ bs_end = 0
    /\ bs_depth = 0
    /\ last_fetched = 0
    /\ finished = FALSE
    /\ out = << >>
    /\ lastReq = NoReq
    /\ notFound = {}
    /\ stale = 0
    /\ slept = FALSE
    /\ sessions = 0
    /\ SearchIdle
    /\ BookIdle
    /\ FeedIdle
    /\ StoreIdle

Init == InitWith(ParamSets)

\* The generator of the current product ends: fetch_many / the symbol loop
\* goes on with the next product, or the stream ends.
\* (variant) an adapter whose __aexit__ leaves its session open
SessionAExitLeaks(n) == n

\* __aexit__ of the adapter: its session is closed
SessionAExit(n) == n - 1

\* __aenter__ of the adapter: one more session is open
SessionAEnter(n) == n + 1

NextProduct ==
    /\ prodIdx' = prodIdx + 1
    /\ sessions' = SessionAExit(sessions)
    /\ pc' = IF prodIdx = Len(Products) THEN "done" ELSE "begin"

Request(phase, o) ==
    /\ lastReq' = [product |-> product, phase |-> phase, kind |-> o.kind,
                   status |-> o.status, body |-> BodyClass(o),
                   tag |-> FetchTimeframe(o).tag]
    /\ notFound' = IF FetchTimeframe(o).tag = "not_found"
                   THEN notFound \cup {product} ELSE notFound

\* fetch starts for the current product: the first call of the search.
BeginFetch ==
    /\ pc = "begin"
    /\ bs_start' = start_date
    /\ bs_end' = end_date
    /\ bs_depth' = MaxDepth
    /\ pc' = IF EndDateRaises(params[product]) \/ start_date > end_date
             THEN "raised" ELSE "discover"
    /\ sessions' = IF EndDateRaises(params[product]) \/ start_date > end_date
                   THEN SessionAExit(SessionAEnter(sessions))
                   ELSE SessionAEnter(sessions)
    /\ UNCHANGED <<granularity, params, listing, prodIdx,
                   last_fetched, finished, out, lastReq, notFound, stale, slept>>
    /\ UNCHANGED <<searchVars, bookVars, feedVars, storeVars>>

\* One call of the search: one probe request and what the call does with it.
ProbeWith(o) ==
    LET step == BinarySearchStep(bs_start, bs_end, bs_depth,
                                 Condition(FetchTimeframe(o)))
    IN  /\ Request("discover", o)
        /\ bs_start' = step.start
        /\ bs_end' = step.end
        /\ bs_depth' = step.max_depth
        /\ finished' = FALSE
        /\ slept' = FALSE
        /\ CASE step.kind = "raise" ->
                  /\ pc' = "raised"
                  /\ sessions' = SessionAExit(sessions)
                  /\ UNCHANGED <<prodIdx, last_fetched>>
             [] step.kind = "recurse" ->
                  /\ pc' = "discover"
                  /\ UNCHANGED <<prodIdx, last_fetched, sessions>>
             [] step.kind = "return" /\ step.value = NotFoundTs ->
                  /\ NextProduct
                  /\ UNCHANGED last_fetched
             [] OTHER ->
                  /\ pc' = "stream"
                  /\ last_fetched' = step.value
                  /\ UNCHANGED <<prodIdx, sessions>>
        /\ UNCHANGED <<granularity, params, listing, out>>

Probe ==
    /\ pc = "discover"
    /\ LET ts == ProbePoint(bs_start, bs_end, bs_depth)
       IN  \E o \in FailureOutcomes
                    \cup ArrayOutcomes(HonestBodies(product, DefaultGranularity, ts,
                                                    WindowEnd(ts, NoneT))) :
               ProbeWith(o)
    /\ UNCHANGED <<stale, searchVars, bookVars, feedVars, storeVars>>

\* One iteration of the streaming loop: one request and its handling.
StreamWith(o) ==
    LET result == FetchTimeframe(o)
        h == HandleResult(result, last_fetched, granularity)
    IN  /\ Request("stream", o)
        /\ last_fetched' = h.cursor
        /\ out' = IF h.yield
                  THEN Append(out, [product |-> product, data |-> result.data])
                  ELSE out
        /\ finished' = (h.yield /\ InCurrentMonth(h.cursor))
        /\ slept' = (h.yield /\ ~InCurrentMonth(h.cursor))
        /\ pc' = IF h.raised THEN "raised" ELSE "stream"
        /\ sessions' = IF h.raised THEN SessionAExit(sessions) ELSE sessions
        /\ UNCHANGED <<granularity, params, listing, prodIdx,
                       bs_start, bs_end, bs_depth>>

Streaming == pc = "stream" /\ last_fetched <= end_date /\ ~finished

\* End of the window the loop's call fetch_timeframe(last_fetched, end_date,
\* granularity) asks the exchange for.
StreamWindowEnd == WindowEnd(last_fetched, end_date)

Stream ==
    /\ Streaming
    /\ \E o \in FailureOutcomes
                 \cup ArrayOutcomes(HonestBodies(product, granularity, last_fetched,
                                                 StreamWindowEnd)) :
            StreamWith(o)
    /\ UNCHANGED <<stale, searchVars, bookVars, feedVars, storeVars>>

\* The exchange answers with candles older than the requested window.
StreamStale ==
    /\ Streaming
    /\ stale < MaxStale
    /\ \E o \in ArrayOutcomes(StaleBodies(product, granularity, last_fetched)) :
            StreamWith(o)
    /\ stale' = stale + 1
    /\ UNCHANGED <<searchVars, bookVars, feedVars, storeVars>>

\* The loop condition is false: the generator of this product is exhausted.
EndProduct ==
    /\ pc = "stream"
    /\ ~(last_fetched <= end_date /\ ~finished)
    /\ NextProduct
    /\ UNCHANGED <<granularity, params, listing, bs_start, bs_end,
                   bs_depth, last_fetched, finished, out, lastReq, notFound,
                   stale, slept, searchVars, bookVars, feedVars, storeVars>>

\* The consumer stops at a batch and closes the generator: GeneratorExit is
\* raised at the yield of fetch_many and leaves through the adapter's scope.
Close ==
    /\ pc = "stream"
    /\ lastReq.phase = "stream"
    /\ lastReq.tag = "ok"
    /\ lastReq.product = product
    /\ pc' = "closed"
    /\ sessions' = SessionAExit(sessions)
    /\ UNCHANGED <<granularity, params, listing, prodIdx, bs_start, bs_end,
                   bs_depth, last_fetched, finished, out, lastReq, notFound,
                   stale, slept, searchVars, bookVars, feedVars, storeVars>>

Next ==
    BeginFetch \/ Probe \/ Stream \/ StreamStale \/ EndProduct \/ Close

Spec == Init /\ [][Next]_vars

\* fetch called at the edges of its parameters: a range of one instant, an
\* end_date after the wall clock given as a datetime or as an ISO string, no
\* end_date at all.
EdgeParams ==
    {[start_date |-> t, end_date |-> t, end_form |-> "datetime"] :
        t \in {0, 60, MaxEnd - ShortSpan, MaxEnd}}
    \cup {[start_date |-> Now - 2 * ShortSpan, end_date |-> Now + MonthLen,
            end_form |-> f] : f \in {"datetime", "str"}}
    \cup {[start_date |-> Now - 2 * ShortSpan, end_date |-> NoneT,
            end_form |-> "none"]}

EdgeParamSets == [Range(Products) -> EdgeParams]

EdgeInit == InitWith(EdgeParamSets)

EdgeSpec == EdgeInit /\ [][Next]_vars

\* ------------------------------------------------- the search on its own
\* The fetch engine and the order book at rest.
EngineIdle ==
    /\ granularity = DefaultGranularity
    /\ params \in ParamSets
    /\ listing = [p \in Range(Products) |-> NoneT]
    /\ prodIdx = 1
    /\ last_fetched = 0
    /\ finished = FALSE
    /\ out = << >>
    /\ lastReq = NoReq
    /\ notFound = {}
    /\ stale = 0
    /\ slept = FALSE
    /\ sessions = 0

engineVars == <<granularity, params, listing, prodIdx, last_fetched,
                finished, out, lastReq, notFound, stale, slept, sessions>>

\* max_depth arguments: a small budget and the default
SearchDepths == {2, MaxDepth}

\* A call of either version over any pair of bounds within 0..SearchSpan,
\* with a condition that is false before first_true and true from it on
\* (never true when first_true is past the span).
SearchInit ==
    /\ EngineIdle
    /\ BookIdle
    /\ FeedIdle
    /\ StoreIdle
    /\ pc = "call"
    /\ bs_kind \in {"async", "sync"}
    /\ bs_start \in 0..SearchSpan
    /\ bs_end \in 0..SearchSpan
    /\ bs_depth \in SearchDepths
    /\ first_true \in 0..(SearchSpan + 1)
    /\ probed = {}
    /\ bs_result = NotFoundTs

\* Entry of the outermost call: the range check.
SearchEnter ==
    /\ pc = "call"
    /\ pc' = IF bs_start > bs_end THEN "raised" ELSE "search"
    /\ UNCHANGED <<bs_start, bs_end, bs_depth, engineVars, searchVars,
                   bookVars, feedVars, storeVars>>

\* One call: the probe of the condition, which may also fail and so be
\* false, and the return or the recursion that follows.
SearchProbe ==
    /\ pc = "search"
    /\ LET ts == ProbePoint(bs_start, bs_end, bs_depth)
       IN  \E c \in {ts >= first_true, FALSE} :
             LET step == IF bs_kind = "async"
                         THEN BinarySearchStep(bs_start, bs_end, bs_depth, c)
                         ELSE BinarySearchStepSync(bs_start, bs_end, bs_depth, c)
             IN  /\ probed' = IF c THEN probed \cup {ts} ELSE probed
                 /\ bs_start' = step.start
                 /\ bs_end' = step.end
                 /\ bs_depth' = step.max_depth
                 /\ bs_result' = step.value
                 /\ pc' = CASE step.kind = "raise" -> "raised"
                             [] step.kind = "recurse" -> "search"
                             [] OTHER -> "returned"
    /\ UNCHANGED <<engineVars, bs_kind, first_true, bookVars, feedVars, storeVars>>

SearchNext == SearchEnter \/ SearchProbe

SearchSpec == SearchInit /\ [][SearchNext]_vars

\* ============================================================ order book
\* ------------------------------------------------------------------ heapq
\* Levels are (price, quantity) tuples and compare as Python tuples do.
TupleLess(a, b) == a[1] < b[1] \/ (a[1] = b[1] /\ a[2] < b[2])

Swap(heap, i, j) == [heap EXCEPT ![i] = heap[j], ![j] = heap[i]]

RECURSIVE SiftDown(_, _, _)
\* heapq._siftdown: the item at pos moves towards startpos past every parent
\* it is less than (positions count from 1 here).
SiftDown(heap, startpos, pos) ==
    IF pos > startpos /\ TupleLess(heap[pos], heap[pos \div 2])
    THEN SiftDown(Swap(heap, pos, pos \div 2), startpos, pos \div 2)
    ELSE heap

HeapPush(heap, item) ==
    SiftDown(Append(heap, item), 1, Len(heap) + 1)

RECURSIVE SiftUp(_, _)
\* heapq._siftup: the item at pos sinks to a leaf along the smaller
\* children, then moves back up by _siftdown.
SiftUp(heap, pos) ==
    LET childpos == 2 * pos
        rightpos == childpos + 1
        smaller == IF rightpos <= Len(heap)
                      /\ ~TupleLess(heap[childpos], heap[rightpos])
                   THEN rightpos ELSE childpos
    IN  IF childpos <= Len(heap)
        THEN SiftUp(Swap(heap, pos, smaller), smaller)
        ELSE SiftDown(heap, 1, pos)

\* heapq.heappop, the list it leaves: position 1 is removed, the last item
\* takes its place and is sifted.
HeapPop(heap) ==
    LET lastelt == heap[Len(heap)]
        rest == SubSeq(heap, 1, Len(heap) - 1)
    IN  IF rest = << >> THEN rest
        ELSE SiftUp([rest EXCEPT ![1] = lastelt], 1)

RemoveAt(seq, i) == SubSeq(seq, 1, i - 1) \o SubSeq(seq, i + 1, Len(seq))

RECURSIVE NLargest(_, _)
\* heapq.nlargest(n, heap, key=price): sorted by price descending, the first
\* of equal prices first, cut to n
NLargest(n, heap) ==
    IF n = 0 \/ heap = << >> THEN << >>
    ELSE LET i == CHOOSE k \in 1..Len(heap) :
                    /\ \A j \in 1..Len(heap) : heap[j][1] <= heap[k][1]
                    /\ \A j \in 1..(k - 1) : heap[j][1] # heap[k][1]
         IN  <<heap[i]>> \o NLargest(n - 1, RemoveAt(heap, i))

RECURSIVE NSmallest(_, _)
\* heapq.nsmallest(n, heap, key=price)
NSmallest(n, heap) ==
    IF n = 0 \/ heap = << >> THEN << >>
    ELSE LET i == CHOOSE k \in 1..Len(heap) :
                    /\ \A j \in 1..Len(heap) : heap[j][1] >= heap[k][1]
                    /\ \A j \in 1..(k - 1) : heap[j][1] # heap[k][1]
         IN  <<heap[i]>> \o NSmallest(n - 1, RemoveAt(heap, i))

\* ------------------------------------------------------ level-2 messages
\* Decimal strings as the exchange writes them, several of one value.
PriceTexts == {"1", "1.0", "2", "3"}

QuantityTexts == {"0", "0.00", "1", "2"}

\* float(text)
Float(text) ==
    CASE text \in {"0", "0.00"} -> 0
      [] text \in {"1", "1.0"} -> 1
      [] text = "2" -> 2
      [] text = "3" -> 3

\* float(text) raises ValueError on any other text
IsFloat(text) == text \in {"0", "0.00", "1", "1.0", "2", "3"}

Updates ==
    [side : {"bid", "offer"}, price_level : PriceTexts,
     new_quantity : QuantityTexts]

Message(channel, type, product_id, updates) ==
    [channel |-> channel,
     events |-> <<[type |-> type, product_id |-> product_id,
                   updates |-> updates]>>]

\* Messages the handler passes over: another channel, an event type that is
\* neither snapshot nor update, a product the book was not built for.
IgnoredMessages ==
    LET u == [side |-> "bid", price_level |-> "3", new_quantity |-> "2"]
    IN  {Message("subscriptions", "update", "BTC-USD", <<u>>),
         Message("l2_data", "heartbeat", "BTC-USD", <<u>>),
         Message("l2_data", "update", "XRP-USD", <<u>>)}

\* Messages that carry one update.
OneUpdateMessages ==
    {Message("l2_data", t, p, <<u>>) :
        t \in {"snapshot", "update"}, p \in BookProducts, u \in Updates}
    \cup IgnoredMessages

Messages ==
    OneUpdateMessages
    \cup {Message("l2_data", "update", p, <<u, v>>) :
            p \in BookProducts, u \in Updates, v \in Updates}

\* ------------------------------------------------------ _update_order_book
RECURSIVE IndexOfPrice(_, _, _)
\* first position from i on of a level with this price, 0 if none
IndexOfPrice(heap, price, i) ==
    IF i > Len(heap) THEN 0
    ELSE IF heap[i][1] = price THEN i
    ELSE IndexOfPrice(heap, price, i + 1)

\* (variant) the side left as the heap operations leave it, not re-sorted
UpdateOrderBookUnsorted(bp, product_id, side, price_level, new_quantity) ==
    LET book_side == IF side = "bid" THEN "bids" ELSE "asks"
        price == Float(price_level)
        quantity == Float(new_quantity)
        heap == bp[product_id][book_side]
        i == IndexOfPrice(heap, price, 1)
        pushed == IF i # 0 THEN [heap EXCEPT ![i] = <<price, quantity>>]
                  ELSE HeapPush(heap, <<price, quantity>>)
    IN  IF quantity = 0 THEN bp
        ELSE [bp EXCEPT ![product_id][book_side] =
                 IF Len(pushed) > Depth THEN HeapPop(pushed) ELSE pushed]

\* The book after _update_order_book. `heap` is the list the side held at
\* entry: the branch for quantity 0 stores a filtered copy in the book and
\* leaves `heap` as it was, the other branch changes `heap` in place; the
\* last statement then stores nlargest / nsmallest of `heap`.
UpdateOrderBook(bp, product_id, side, price_level, new_quantity) ==
    LET book_side == IF side = "bid" THEN "bids" ELSE "asks"
        price == Float(price_level)
        quantity == Float(new_quantity)
        known == IF product_id \in DOMAIN bp THEN bp
                 ELSE [q \in DOMAIN bp \cup {product_id} |->
                         IF q \in DOMAIN bp THEN bp[q]
                         ELSE [bids |-> << >>, asks |-> << >>]]
        entry == known[product_id][book_side]
        i == IndexOfPrice(entry, price, 1)
        pushed == IF i # 0 THEN [entry EXCEPT ![i] = <<price, quantity>>]
                  ELSE HeapPush(entry, <<price, quantity>>)
        heap == IF quantity = 0 THEN entry
                ELSE IF Len(pushed) > Depth THEN HeapPop(pushed)
                ELSE pushed
    IN  [known EXCEPT ![product_id][book_side] =
            IF book_side = "bids" THEN NLargest(Depth, heap)
            ELSE NSmallest(Depth, heap)]

Done(bp) == [bp |-> bp, exc |-> "none"]

Raise(bp, exc) == [bp |-> bp, exc |-> exc]

RECURSIVE ApplyUpdates(_, _, _)
\* the loop over event["updates"]: the book it leaves and the exception that
\* ended it, if any. An update without one of its keys raises KeyError, one
\* whose price or quantity is no number ValueError, both before the update
\* touches the book.
ApplyUpdates(bp, product_id, updates) ==
    IF updates = << >> THEN Done(bp)
    ELSE LET update == Head(updates)
         IN  IF ~({"side", "price_level", "new_quantity"} \subseteq DOMAIN update)
             THEN Raise(bp, "KeyError")
             ELSE IF ~IsFloat(update.price_level)
                     \/ ~IsFloat(update.new_quantity)
             THEN Raise(bp, "ValueError")
             ELSE ApplyUpdates(UpdateOrderBook(bp, product_id, update.side,
                                               update.price_level,
                                               update.new_quantity),
                               product_id, Tail(updates))

RECURSIVE ApplyEvents(_, _)
\* the loop over data["events"]
ApplyEvents(bp, events) ==
    IF events = << >> THEN Done(bp)
    ELSE LET event == Head(events)
         IN  IF "type" \notin DOMAIN event THEN Raise(bp, "KeyError")
             ELSE IF event.type \notin {"snapshot", "update"}
             THEN ApplyEvents(bp, Tail(events))
             ELSE IF "product_id" \notin DOMAIN event
             THEN Raise(bp, "KeyError")
             ELSE IF event.product_id \notin DOMAIN bp
             THEN ApplyEvents(bp, Tail(events))
             ELSE IF "updates" \notin DOMAIN event THEN Raise(bp, "KeyError")
             ELSE LET r == ApplyUpdates(bp, event.product_id, event.updates)
                  IN  IF r.exc # "none" THEN r
                      ELSE ApplyEvents(r.bp, Tail(events))

\* Exceptions the handler's `except Exception` catches.
Catches(exc) ==
    exc \in {"JSONDecodeError", "KeyError", "ValueError", "TypeError"}

\* ----------------------------------------------------- malformed messages
\* A message that is no JSON text
NotJson == [text |-> "l2_data{"]

WellFormedUpdate == [side |-> "bid", price_level |-> "3", new_quantity |-> "1"]

\* Updates that lack a key or carry a text that is no number
MalformedUpdates ==
    {[price_level |-> "3", new_quantity |-> "1"],
     [side |-> "bid", new_quantity |-> "1"],
     [side |-> "bid", price_level |-> "3"],
     [side |-> "bid", price_level |-> "abc", new_quantity |-> "1"],
     [side |-> "bid", price_level |-> "3", new_quantity |-> ""]}

\* Messages that are not valid JSON or lack a required field, at the top,
\* in an event, or in an update that is first or follows a well-formed one.
MalformedMessages ==
    {NotJson,
     [events |-> << >>],
     [channel |-> "l2_data"],
     [channel |-> "l2_data",
      events |-> <<[product_id |-> "BTC-USD", updates |-> << >>]>>],
     [channel |-> "l2_data",
      events |-> <<[type |-> "update", updates |-> << >>]>>],
     [channel |-> "l2_data",
      events |-> <<[type |-> "update", product_id |-> "BTC-USD"]>>]}
    \cup {Message("l2_data", "update", "BTC-USD", <<u>>) :
            u \in MalformedUpdates}
    \cup {Message("l2_data", "update", "BTC-USD", <<WellFormedUpdate, u>>) :
            u \in MalformedUpdates}

\* Messages whose first event is well formed and whose second event lacks a
\* field or holds a malformed update
TornMessages ==
    {[channel |-> "l2_data",
      events |-> <<[type |-> "update", product_id |-> "BTC-USD",
                    updates |-> <<WellFormedUpdate>>], event>>] :
        event \in {[type |-> "update", updates |-> << >>],
                   [type |-> "update", product_id |-> "BTC-USD"]}
                  \cup {[type |-> "update", product_id |-> "BTC-USD",
                         updates |-> <<u>>] : u \in MalformedUpdates}}

\* ---------------------------------------------------------------- actions
\* _client after __aenter__
Subscribed ==
    [client |-> TRUE, transport |-> "open", subscribed |-> TRUE,
     calls |-> <<"open", "level2">>, cause |-> "none"]

BookInit ==
    /\ EngineIdle
    /\ SearchIdle
    /\ BookIdle
    /\ ws = Subscribed
    /\ clock = 0
    /\ until = NoneT
    /\ StoreIdle
    /\ pc = "book"
    /\ bs_start = 0
    /\ bs_end = 0
    /\ bs_depth = 0

\* The body of the handler's try: the book it leaves and the exception that
\* ended it, if any.
Handle(message) ==
    IF "text" \in DOMAIN message THEN Raise(best_prices, "JSONDecodeError")
    ELSE IF "channel" \notin DOMAIN message THEN Raise(best_prices, "KeyError")
    ELSE IF message.channel # "l2_data" THEN Done(best_prices)
    ELSE IF "events" \notin DOMAIN message THEN Raise(best_prices, "KeyError")
    ELSE ApplyEvents(best_prices, message.events)

\* The book _on_message leaves when it is given this message.
After(message) == Handle(message).bp

\* _on_message for one message of the feed
OnMessage(message) ==
    /\ pc = "book"
    /\ best_prices' = After(message)
    /\ pc' = IF Handle(message).exc = "none" \/ Catches(Handle(message).exc)
             THEN pc ELSE "raised"
    /\ UNCHANGED <<bs_start, bs_end, bs_depth, engineVars, searchVars,
                   snap, feedVars, storeVars>>

Feed == \E message \in Messages : OnMessage(message)

BookNext == Feed

BookSpec == BookInit /\ [][BookNext]_vars

\* One iteration of snapshots(): the test of the clock against until, the
\* sleep, the yield. The snapshot is the dictionary of the products, each
\* product mapped to the object _best_prices holds for it. An object is named
\* by its product; seen is what the consumer reads in the snapshot when it
\* gets it, timestamp the clock read at the yield.
Snapshot ==
    /\ pc = "book"
    /\ Len(snap) < MaxSnaps
    /\ until = NoneT \/ clock < until
    /\ clock' = clock + Frequency
    /\ snap' = Append(snap, [products |-> [p \in BookProducts |-> p],
                             seen |-> best_prices,
                             timestamp |-> clock + Frequency])
    /\ UNCHANGED <<pc, bs_start, bs_end, bs_depth, engineVars, searchVars,
                   best_prices, ws, until, storeVars>>

\* What a snapshot shows when the consumer reads it now.
Read(snapshot) ==
    [p \in DOMAIN snapshot.products |-> best_prices[snapshot.products[p]]]

FeedOne == \E message \in OneUpdateMessages : OnMessage(message)

SnapshotNext == FeedOne \/ Snapshot

SnapshotSpec == BookInit /\ [][SnapshotNext]_vars

\* The feed also delivers malformed messages.
FeedAny ==
    \E message \in OneUpdateMessages \cup MalformedMessages
                     \cup TornMessages :
        OnMessage(message)

FaultyNext == FeedAny

FaultySpec == BookInit /\ [][FaultyNext]_vars

\* ------------------------------------------------- the subscription scope
\* `async with OrderBook(...)` is entered and snapshots(until) is called.
SessionInit ==
    /\ EngineIdle
    /\ SearchIdle
    /\ BookIdle
    /\ ws = NoClient
    /\ clock = 0
    /\ until \in {NoneT} \cup 1..MaxClock
    /\ StoreIdle
    /\ pc = "outside"
    /\ bs_start = 0
    /\ bs_end = 0
    /\ bs_depth = 0

\* __aenter__: WSClient(...), open(), level2(...). When open or level2
\* raises, the exception leaves the `async with` statement and __aexit__ is
\* not called.
AEnter(outcome) ==
    /\ pc = "outside"
    /\ ws' = CASE outcome = "open_raises" ->
                    [ws EXCEPT !.client = TRUE, !.calls = <<"open">>]
               [] outcome = "level2_raises" ->
                    [ws EXCEPT !.client = TRUE, !.transport = "open",
                               !.calls = <<"open", "level2">>]
               [] OTHER -> Subscribed
    /\ pc' = IF outcome = "ok" THEN "book" ELSE "raised"
    /\ UNCHANGED <<bs_start, bs_end, bs_depth, engineVars, searchVars,
                   bookVars, clock, until, storeVars>>

Enter == \E outcome \in {"ok", "open_raises", "level2_raises"} : AEnter(outcome)

\* Time passes while the consumer works on a snapshot.
Wait ==
    /\ pc = "book"
    /\ clock < MaxClock
    /\ clock' = clock + 1
    /\ UNCHANGED <<pc, bs_start, bs_end, bs_depth, engineVars, searchVars,
                   bookVars, ws, until, storeVars>>

\* The loop test of snapshots() is false: the generator ends.
StreamEnd ==
    /\ pc = "book"
    /\ ~(until = NoneT \/ clock < until)
    /\ pc' = "ended"
    /\ UNCHANGED <<bs_start, bs_end, bs_depth, engineVars, searchVars,
                   bookVars, feedVars, storeVars>>

\* __aexit__, on whatever ends the body of the `async with`:
\* level2_unsubscribe(), close(), _client = None. An exception of
\* level2_unsubscribe skips close; what a close that raises leaves of the
\* transport is not known.
AExit(cause, outcome, left) ==
    /\ pc \in {"book", "ended"}
    /\ ws.client
    /\ ws' = CASE outcome = "unsubscribe_raises" ->
                    [ws EXCEPT !.calls = Append(@, "level2_unsubscribe"),
                               !.cause = cause]
               [] outcome = "close_raises" ->
                    [ws EXCEPT !.calls = @ \o <<"level2_unsubscribe", "close">>,
                               !.subscribed = FALSE, !.transport = left,
                               !.cause = cause]
               [] OTHER ->
                    [ws EXCEPT !.calls = @ \o <<"level2_unsubscribe", "close">>,
                               !.subscribed = FALSE, !.transport = "closed",
                               !.client = FALSE, !.cause = cause]
    /\ pc' = IF outcome = "ok" THEN "left" ELSE "raised"
    /\ UNCHANGED <<bs_start, bs_end, bs_depth, engineVars, searchVars,
                   bookVars, clock, until, storeVars>>

Exit ==
    \E cause \in {"normal", "cancel", "fault"},
       outcome \in {"ok", "unsubscribe_raises", "close_raises"},
       left \in {"open", "closed"} :
        AExit(cause, outcome, left)

SessionNext == Enter \/ Snapshot \/ Wait \/ StreamEnd \/ Exit

SessionSpec == SessionInit /\ [][SessionNext]_vars

\* The exchange answers every request with the candles of the requested window.
HonestNext == BeginFetch \/ Probe \/ Stream \/ EndProduct

HonestSpec == Init /\ [][HonestNext]_vars

\* ------------------------------------------------------- OHLCV_Database
\* Rows handed to insert: <<timestamp, close>>.  The columns open, high, low
\* and volume travel with close through every step and are not told apart.
StoreRows == {<<1, 0>>, <<1, 1>>, <<2, 0>>}

\* the "data" of one call of insert: zero, one or two rows in any order
StoreBatches ==
    {<< >>} \cup {<<r>> : r \in StoreRows}
            \cup {<<r1, r2>> : r1 \in StoreRows, r2 \in StoreRows}

\* the timestamp column of a frame
Timestamps(df) == [i \in 1..Len(df) |-> df[i][1]]

\* number of times row r is in frame df
Count(df, r) == Cardinality({i \in 1..Len(df) : df[i] = r})

\* sort_values(by="timestamp"): the orders the sort may produce.  The default
\* sort is not stable, so rows of equal timestamp come out in any order.
SortValues(df) ==
    {s \in [1..Len(df) -> Range(df)] :
        /\ \A r \in Range(df) : Count(s, r) = Count(df, r)
        /\ \A i, j \in 1..Len(df) : i < j => s[i][1] <= s[j][1]}

RECURSIVE DropDuplicates(_)
\* drop_duplicates(subset=["timestamp"]): the first row of each timestamp
DropDuplicates(df) ==
    IF df = << >> THEN << >>
    ELSE LET front == DropDuplicates(SubSeq(df, 1, Len(df) - 1))
             last == df[Len(df)]
         IN  IF last[1] \in Range(Timestamps(front)) THEN front
             ELSE Append(front, last)

\* (variant) a read of the scratch file that fails on an empty file
RaisesOnEmpty(csv) == csv = << >>

\* read_csv is given the column names: an empty file reads as an empty frame
ReadCsvRaises(csv) == FALSE

\* the frames _compress may read from a scratch file
TempFrames(csv) == {DropDuplicates(s) : s \in SortValues(csv)}

\* An earlier draft of the merge: the two tiers concatenated as they are.
ConcatFrames(prev_df, temp_df) == {prev_df \o temp_df}

\* A merge that keeps the scratch rows alone.
ScratchFrames(prev_df, temp_df) == {temp_df}

\* A merge that prefers the scratch row to the persisted one.
NewestFrames(prev_df, temp_df) ==
    SortValues(DropDuplicates(temp_df \o prev_df))

\* the merge of the partition with the scratch frame
MergeFrames(prev_df, temp_df) ==
    SortValues(DropDuplicates(prev_df \o temp_df))

\* the frames _compress may write for a product
MergedFrames(name, temp_df) ==
    IF merged[name].exists
    THEN MergeFrames(merged[name].rows, temp_df)
    ELSE {temp_df}

\* st_size of a scratch file, in rows
StatSize(csv) == Len(csv)

\* (variant) a size test that also fires at the threshold
AtLeastThreshold(size) == size >= Threshold

\* the size test of insert
TooLarge(size) == size > Threshold

\* An insert that never compacts the product written before.
NeverSwitches(name) == FALSE

\* insert meets a product other than the one it wrote last
Switches(name) == last_used # "" /\ last_used # name

\* a partition file left by a write that did not finish
Partial == [exists |-> TRUE, complete |-> FALSE, rows |-> << >>]

coinVars == <<buffers, delta, active_month, batches>>

storeRest == <<pc, bs_start, bs_end, bs_depth, engineVars, searchVars,
               bookVars, feedVars, coinVars>>

\* insert up to the decision to compact the product written before.  A
\* scratch file that compaction can no longer empty grows with every call: the
\* calls are followed while the file is within the threshold.
InsertCall(name, data) ==
    /\ pc = "store"
    /\ ins.pc = "idle"
    /\ StatSize(scratch[name]) <= Threshold
    /\ ins' = [pc |-> IF Switches(name) THEN "read" ELSE "append",
               product |-> name, data |-> data,
               target |-> IF Switches(name) THEN last_used ELSE "",
               ret |-> "append", prev_df |-> << >>, df |-> << >>]
    /\ UNCHANGED <<scratch, merged, last_used, failures, storeRest>>

\* _compress up to the frame it is about to write; reading a partition that
\* is not a complete file raises and the call of insert ends there
CompressRead ==
    /\ pc = "store"
    /\ ins.pc = "read"
    /\ IF \/ ReadCsvRaises(scratch[ins.target])
          \/ merged[ins.target].exists /\ ~merged[ins.target].complete
       THEN ins' = NoInsert
       ELSE \E temp_df \in TempFrames(scratch[ins.target]) :
            \E merged_df \in MergedFrames(ins.target, temp_df) :
                ins' = [ins EXCEPT !.pc = "write", !.df = merged_df,
                                   !.prev_df = merged[ins.target].rows]
    /\ UNCHANGED <<scratch, merged, last_used, failures, storeRest>>

\* to_parquet opens the partition file for writing, in place
CompressWriteOpen ==
    /\ pc = "store"
    /\ ins.pc = "write"
    /\ merged' = [merged EXCEPT ![ins.target] = Partial]
    /\ ins' = [ins EXCEPT !.pc = "writing"]
    /\ UNCHANGED <<scratch, last_used, failures, storeRest>>

\* to_parquet finishes the partition file
CompressWriteDone ==
    /\ pc = "store"
    /\ ins.pc = "writing"
    /\ merged' = [merged EXCEPT ![ins.target] =
                    [exists |-> TRUE, complete |-> TRUE, rows |-> ins.df]]
    /\ ins' = [ins EXCEPT !.pc = "truncate"]
    /\ UNCHANGED <<scratch, last_used, failures, storeRest>>

\* the scratch file is cleared and _compress returns into insert
CompressTruncate ==
    /\ pc = "store"
    /\ ins.pc = "truncate"
    /\ scratch' = [scratch EXCEPT ![ins.target] = << >>]
    /\ ins' = [ins EXCEPT !.pc = ins.ret, !.target = "", !.df = << >>,
                       !.prev_df = << >>]
    /\ UNCHANGED <<merged, last_used, failures, storeRest>>

\* the rows are appended to the scratch file and its size is looked at
InsertAppend ==
    /\ pc = "store"
    /\ ins.pc = "append"
    /\ scratch' = [scratch EXCEPT ![ins.product] = @ \o ins.data]
    /\ ins' = IF TooLarge(StatSize(scratch'[ins.product]))
              THEN [ins EXCEPT !.pc = "read", !.target = ins.product,
                               !.ret = "finish"]
              ELSE [ins EXCEPT !.pc = "finish"]
    /\ UNCHANGED <<merged, last_used, failures, storeRest>>

\* insert records the scratch file it wrote and returns
InsertFinish ==
    /\ pc = "store"
    /\ ins.pc = "finish"
    /\ last_used' = ins.product
    /\ ins' = NoInsert
    /\ UNCHANGED <<scratch, merged, failures, storeRest>>

\* A storage error, or the end of the process, inside _compress.  Nothing
\* catches it: the call of insert ends where it is.  A write under way leaves
\* the file as far as it got, or no file where the writer removes it.
StorageFault ==
    /\ pc = "store"
    /\ ins.pc \in {"read", "write", "writing", "truncate"}
    /\ failures < MaxFailures
    /\ failures' = failures + 1
    /\ IF ins.pc = "writing"
       THEN \E left \in {Partial, NoPartition} :
                merged' = [merged EXCEPT ![ins.target] = left]
       ELSE UNCHANGED merged
    /\ ins' = NoInsert
    /\ UNCHANGED <<scratch, last_used, storeRest>>

Insert ==
    \E name \in StoreProducts, data \in StoreBatches :
        InsertCall(name, data)

Compress ==
    \/ CompressRead
    \/ CompressWriteOpen
    \/ CompressWriteDone
    \/ CompressTruncate

\* The fetch engine, the search and the order book at rest.
OthersIdle ==
    /\ granularity = DefaultGranularity
    /\ params = CHOOSE q \in ParamSets : TRUE
    /\ listing = [p \in Range(Products) |-> NoneT]
    /\ prodIdx = 1
    /\ last_fetched = 0
    /\ finished = FALSE
    /\ out = << >>
    /\ lastReq = NoReq
    /\ notFound = {}
    /\ stale = 0
    /\ slept = FALSE
    /\ sessions = 0
    /\ SearchIdle
    /\ bs_start = 0
    /\ bs_end = 0
    /\ bs_depth = MaxDepth
    /\ BookIdle
    /\ FeedIdle

\* The store on an empty directory.
StoreInit ==
    /\ OthersIdle
    /\ StoreIdle
    /\ pc = "store"

\* The store on a file system that never fails.
StoreNext == Insert \/ Compress \/ InsertAppend \/ InsertFinish

StoreSpec == StoreInit /\ [][StoreNext]_vars

\* The store on a file system that may fail, in a process that may end.
CrashNext == StoreNext \/ StorageFault

CrashSpec == StoreInit /\ [][CrashNext]_vars

\* ---------------------------------------------------------------- CoinDB
\* Rows of the updates handed to CoinDB.store: <<time, close>>, on both sides
\* of the end of a month.  low, high, open and volume travel with close.
CoinRows == {<<MonthLen - 1, 0>>, <<MonthLen - 1, 1>>, <<MonthLen, 0>>}

\* the "data" of one update: zero, one or two rows in any order
CoinBatches ==
    {<< >>} \cup {<<r>> : r \in CoinRows}
            \cup {<<r1, r2>> : r1 \in CoinRows, r2 \in CoinRows}

coinRest == <<pc, bs_start, bs_end, bs_depth, engineVars, searchVars,
              bookVars, feedVars, scratch, merged, last_used, ins, failures>>

\* _flush of the month a symbol leaves: nothing to do on an empty buffer
Flushes(symbol, month) ==
    /\ active_month[symbol] # NoneT
    /\ active_month[symbol] # month
    /\ buffers[<<symbol, active_month[symbol]>>] # << >>

\* One turn of the loop of store: an empty update is skipped; the month of
\* the last row names the buffer; the buffer of the month the symbol leaves
\* is appended to its table and cleared; then the rows are buffered.
StoreUpdate(symbol, data) ==
    /\ pc = "coin"
    /\ batches < MaxBatches
    /\ batches' = batches + 1
    /\ IF data = << >>
       THEN UNCHANGED <<buffers, delta, active_month>>
       ELSE LET month == MonthOf(data[Len(data)][1])
                key == <<symbol, month>>
                prev == <<symbol, active_month[symbol]>>
                kept == IF Flushes(symbol, month)
                        THEN [buffers EXCEPT ![prev] = << >>]
                        ELSE buffers
            IN  /\ delta' = IF Flushes(symbol, month)
                            THEN [delta EXCEPT ![prev] = @ \o buffers[prev]]
                            ELSE delta
                /\ buffers' = [kept EXCEPT ![key] = @ \o data]
                /\ active_month' = [active_month EXCEPT ![symbol] = month]
    /\ UNCHANGED coinRest

\* the generator is exhausted and store returns
StoreReturn ==
    /\ pc = "coin"
    /\ pc' = "stored"
    /\ UNCHANGED <<bs_start, bs_end, bs_depth, engineVars, searchVars,
                   bookVars, feedVars, storeVars>>

\* offsets from UTC a bound of query may carry
Offsets == {0, 1}

\* bounds handed to query: a datetime with its offset, or its ISO text
QueryBounds ==
    [form : {"datetime", "str"},
     wall : (MonthLen - 2)..(MonthLen + 1),
     offset : Offsets]

\* the instant a bound names
Instant(bound) == bound.wall - bound.offset

\* the instant query compares with: the text is parsed and its offset is
\* replaced by UTC, a datetime is written with its offset
Compared(bound) ==
    IF bound.form = "str" THEN bound.wall ELSE bound.wall - bound.offset

RECURSIVE ReadParquet(_, _, _)
\* read_parquet over the files of a symbol: the rows of its tables, the
\* months taken from the first to month
ReadParquet(tier, symbol, month) ==
    IF month \notin StoreMonths THEN << >>
    ELSE ReadParquet(tier, symbol, month - 1) \o tier[<<symbol, month>>]

\* the rows of a frame with a timestamp from low to high, both included
Between(df, low, high) ==
    SelectSeq(df, LAMBDA r : low <= r[1] /\ r[1] <= high)

\* the answers query may give over the tables of tier: an error when the
\* symbol has no file, else the rows in range in an ascending order
Query(tier, symbol, t_from, t_to) ==
    IF ReadParquet(tier, symbol, Max(StoreMonths)) = << >>
    THEN {[raised |-> TRUE, rows |-> << >>]}
    ELSE {[raised |-> FALSE, rows |-> rows] :
            rows \in SortValues(Between(ReadParquet(tier, symbol,
                                                    Max(StoreMonths)),
                                        Compared(t_from),
                                        Compared(t_to)))}

CoinStore ==
    \E symbol \in StoreProducts, data \in CoinBatches :
        StoreUpdate(symbol, data)

\* CoinDB on an empty directory, store called.
CoinInit ==
    /\ OthersIdle
    /\ StoreIdle
    /\ pc = "coin"

CoinNext == CoinStore \/ StoreReturn

CoinSpec == CoinInit /\ [][CoinNext]_vars

\* ================================================================ claims
ProdIndex(p) == CHOOSE i \in 1..Len(Products) : Products[i] = p

IsStrictlyIncreasing(s) == \A i, j \in 1..Len(s) : i < j => s[i] < s[j]

RECURSIVE EmittedTimestamps(_, _)
\* timestamps of the batches of product p among the first n batches of out,
\* concatenated in emission order
EmittedTimestamps(p, n) ==
    IF n = 0 THEN << >>
    ELSE EmittedTimestamps(p, n - 1)
         \o (IF out[n].product = p THEN out[n].data ELSE << >>)

FailureTags == {"not_found", "rate_limited", "server_error", "api_failure",
                "timeout_error"}

\* Every step taken from a state of the search, or of the streaming loop with
\* its condition true, issues one request.
InStreamLoop == Streaming
IssuesRequest == pc = "discover" \/ InStreamLoop

\* C1: in the output of a multi-product fetch every batch of an earlier
\* product precedes every batch of a later product.
C1_ProductsNotInterleaved ==
    \A i, j \in 1..Len(out) :
        i < j => ProdIndex(out[i].product) <= ProdIndex(out[j].product)

C1_Witness ==
    \E i, j \in 1..Len(out) :
        /\ i < j
        /\ out[i].product = Products[1]
        /\ out[j].product = Products[2]

\* C2: for each product the timestamps emitted over a backfill, concatenated
\* in emission order, are strictly increasing (the exchange answering with
\* the candles of the requested window).
C2_EmittedStrictlyIncreasing ==
    \A i \in 1..Len(Products) :
        IsStrictlyIncreasing(EmittedTimestamps(Products[i], Len(out)))

\* C3: every emitted batch has non-empty data whose timestamps are strictly
\* increasing in list order.
C3_BatchAscending ==
    \A i \in 1..Len(out) :
        out[i].data # << >> /\ IsStrictlyIncreasing(out[i].data)

\* C4: in the streaming loop the cursor never decreases from one iteration to
\* the next, whatever the exchange answers.
C4_CursorNeverDecreases ==
    [][(pc = "stream" /\ pc' = "stream" /\ prodIdx' = prodIdx)
          => last_fetched' >= last_fetched]_vars

\* C5: fetch over a finite product list and a finite range always ends with
\* every product done, whatever the outcomes of the requests: when the engine
\* has no step left, the stream has terminated after the last product.
C5_EndsWithAllProductsDone == (~ENABLED HonestNext) => pc = "done"

\* C6: a request answered with a failure never makes fetch raise; the engine
\* stays in its loop (or ends the product) after it.
C6_FailureNeverRaises ==
    [][(IssuesRequest /\ lastReq'.tag \in FailureTags) => pc' # "raised"]_vars

C6_Witness ==
    /\ lastReq.tag \in FailureTags
    /\ lastReq.phase = "stream"
    /\ pc = "stream"

\* C7: fetch_timeframe maps every response to the tag of the taxonomy table.
TaxonomyTag(r) ==
    CASE r.kind = "timeout" -> "timeout_error"
      [] r.kind = "client_error" -> "api_failure"
      [] r.kind = "response" /\ r.status = 404 -> "not_found"
      [] r.kind = "response" /\ r.status = 429 -> "rate_limited"
      [] r.kind = "response" /\ r.status \in 500..599 -> "server_error"
      [] r.kind = "response" /\ r.status = 200 /\ r.body = "filled_list" -> "ok"
      [] r.kind = "response" /\ r.status = 200 /\ r.body = "empty_list" -> "no_data"
      [] OTHER -> "api_failure"

C8_NotFoundEndsProduct ==
    [][(pc \in {"discover", "stream"} /\ product \in notFound)
          => (~IssuesRequest /\ out' = out)]_vars

\* C9: after a request answered rate_limited or server_error the cursor is
\* unchanged, so that the next request covers the same window.
C9_RetrySameWindow ==
    [][(InStreamLoop /\ lastReq'.tag \in {"rate_limited", "server_error"})
          => (pc' = "stream" /\ last_fetched' = last_fetched)]_vars

\* C10: after a request answered timeout_error or api_failure the cursor
\* advances by exactly one window, MAX_CANDLES * granularity seconds.
C10_SkipOneWindow ==
    [][(InStreamLoop /\ lastReq'.tag \in {"timeout_error", "api_failure"})
          => last_fetched' = last_fetched + MAX_CANDLES * granularity]_vars

\* C11: every request of the streaming loop asks for the window from the
\* cursor C to min(C + MAX_CANDLES * granularity, end date): it spans at most
\* MAX_CANDLES candles and does not extend past the end date.
C11_StreamWindow ==
    Streaming =>
        /\ StreamWindowEnd = Min({last_fetched + MAX_CANDLES * granularity,
                                  end_date})
        /\ StreamWindowEnd - last_fetched <= MAX_CANDLES * granularity
        /\ StreamWindowEnd <= end_date

\* C12: a fetch whose start_date equals its end_date emits no batch,
\* whatever the exchange holds, and does not raise.
C12_EmptyRangeEmitsNothing ==
    /\ \A i \in 1..Len(out) :
          params[out[i].product].start_date # params[out[i].product].end_date
    /\ (pc = "raised" =>
          params[product].start_date # params[product].end_date)

\* C13: an end_date later than the current time, given as an ISO string or
\* as a datetime, is clamped to now: the search runs up to now and fetch does
\* not fail.
C13_EndClampedToNow ==
    [][(pc = "begin" /\ params[product].end_form # "none"
                    /\ params[product].end_date > Now)
          => (pc' = "discover" /\ bs_end' = Now)]_vars

\* C14: for a request the exchange rejects, with 404 for an unknown product
\* or with 400 for an unsupported granularity, fetch_timeframe returns None.
C14_RejectedReturnsNone ==
    (lastReq.kind = "response" /\ lastReq.status \in {400, 404})
        => lastReq.tag = "None"

\* C15: the search returns -1 only when no probe returned true; otherwise
\* it returns the leftmost probed timestamp that yielded a true result.
C15_NoneOnlyWithoutTrueProbe ==
    pc = "returned" =>
        IF probed = {} THEN bs_result = NotFoundTs
        ELSE bs_result = Min(probed)

\* C16: when the search returns k other than -1, the condition was
\* evaluated true at k and no timestamp smaller than k was probed with a true
\* result (both versions of the search).
C16_SearchSound ==
    (pc = "returned" /\ bs_result # NotFoundTs) =>
        /\ bs_result \in probed
        /\ \A t \in probed : bs_result <= t

C16_Witness ==
    /\ pc = "returned"
    /\ bs_result # NotFoundTs
    /\ bs_kind = "async"
    /\ Cardinality(probed) >= 2

\* ---------------------------------------------------- order book claims
BookSideOf(side) == IF side = "bid" THEN "bids" ELSE "asks"

PricesOf(levels) == {levels[i][1] : i \in 1..Len(levels)}

Better(a, b, book_side) ==
    IF book_side = "bids" THEN a[1] > b[1] ELSE a[1] < b[1]

\* the Depth best of a set of levels: highest prices for bids, lowest for asks
BestLevels(levels, book_side) ==
    {l \in levels :
        Cardinality({k \in levels : Better(k, l, book_side)}) < Depth}

OneUpdate(p, u) == OnMessage(Message("l2_data", "update", p, <<u>>))

\* C17: after the insert of a new price level on a side that holds the set S
\* of levels, the side holds exactly the Depth best levels of S plus the new
\* level; what is evicted is the worst level, never the best bid or ask.
C17_InsertKeepsBest ==
    [][\A p \in BookProducts, u \in Updates :
          LET book_side == BookSideOf(u.side)
              S == Range(best_prices[p][book_side])
              level == <<Float(u.price_level), Float(u.new_quantity)>>
          IN  (/\ level[2] # 0
               /\ level[1] \notin PricesOf(best_prices[p][book_side])
               /\ OneUpdate(p, u))
              => Range(best_prices'[p][book_side])
                   = BestLevels(S \cup {level}, book_side)]_vars

\* C18: an update with new_quantity 0 for a price present on its side
\* removes that level and leaves every other level of the book unchanged.
C18_ZeroRemovesLevel ==
    \A p \in BookProducts, u \in Updates :
        LET book_side == BookSideOf(u.side)
            price == Float(u.price_level)
            Keep(l) == l[1] # price
        IN  (/\ pc = "book"
             /\ Float(u.new_quantity) = 0
             /\ price \in PricesOf(best_prices[p][book_side]))
            => After(Message("l2_data", "update", p, <<u>>)) =
                 [best_prices EXCEPT ![p][book_side] =
                     SelectSeq(best_prices[p][book_side], Keep)]

\* C19: after every processed message the bids are strictly descending by
\* price and the asks strictly ascending, so no price occurs twice on a
\* side, and each side holds at most Depth levels.
C19_SidesOrdered ==
    \A p \in BookProducts :
        LET bids == best_prices[p].bids
            asks == best_prices[p].asks
        IN  /\ Len(bids) <= Depth
            /\ Len(asks) <= Depth
            /\ \A i, j \in 1..Len(bids) : i < j => bids[i][1] > bids[j][1]
            /\ \A i, j \in 1..Len(asks) : i < j => asks[i][1] < asks[j][1]

C19_Witness ==
    \E p \in BookProducts :
        /\ Len(best_prices[p].bids) = Depth
        /\ Len(best_prices[p].asks) = Depth
        /\ best_prices[p].bids[1][1] > 1
        /\ best_prices[p].asks[1][1] > 1

\* C20: a snapshot is a value copy: once emitted, the bids and asks it
\* holds never change, whatever updates the book receives afterwards.
C20_SnapshotNeverChanges ==
    \A i \in 1..Len(snap) : Read(snap[i]) = snap[i].seen

\* C21: on every exit from the subscription scope, also on a fault raised
\* while subscribing or by unsubscribe itself, the maintainer unsubscribes
\* and then closes the transport, in that order, and no opened transport
\* stays open.
C21_ReleasedOnEveryExit ==
    (pc \in {"left", "raised"} /\ "open" \in Range(ws.calls)) =>
        /\ ws.transport = "closed"
        /\ Len(ws.calls) >= 2
        /\ SubSeq(ws.calls, Len(ws.calls) - 1, Len(ws.calls))
             = <<"level2_unsubscribe", "close">>

\* C22: the message handler never raises, and a message that is not valid
\* JSON or lacks a required field is skipped: it leaves the book as it was,
\* and the handler goes on with the messages that follow.
C22_MalformedSkipped ==
    pc = "book" =>
        \A message \in MalformedMessages :
            /\ Catches(Handle(message).exc)
            /\ After(message) = best_prices

\* C23: no snapshot is emitted once the clock has reached until: every
\* snapshot is taken at a time before until; with until absent the stream
\* does not end by itself.
C23_NoSnapshotAfterUntil ==
    /\ until # NoneT => \A i \in 1..Len(snap) : snap[i].timestamp < until
    /\ until = NoneT => pc # "ended"

\* ---------------------------------------------------------- store claims
\* timestamps held by a frame
TimestampSet(df) == Range(Timestamps(df))

\* C24: when insert is called for a product other than the one written last,
\* the scratch file of the product written last has been compacted before the
\* first row of the new product is appended: at the truncation every scratch
\* timestamp is in its partition, and at the append its scratch file is empty
\* and its partition is a complete file.
C24_OldProductCompactedFirst ==
    /\ (ins.pc = "truncate" /\ ins.ret = "append") =>
            /\ ins.target = last_used
            /\ merged[last_used].exists /\ merged[last_used].complete
            /\ TimestampSet(scratch[last_used])
                  \subseteq TimestampSet(merged[last_used].rows)
    /\ (ins.pc = "append" /\ last_used # "" /\ last_used # ins.product) =>
            /\ scratch[last_used] = << >>
            /\ merged[last_used].exists /\ merged[last_used].complete
            /\ scratch[ins.product] = << >>

\* the scratch rows of the product written last are in its partition and the
\* rows of the new product are still to be appended
C24_Witness ==
    /\ ins.pc = "truncate"
    /\ ins.ret = "append"
    /\ scratch[ins.target] # << >>
    /\ ins.data # << >>
    /\ ins.product # ins.target

\* C25: after every compaction the partition written is sorted by timestamp,
\* ascending, and holds no timestamp twice, whatever the order and the
\* duplicates of the scratch file and whatever the partition held.
C25_PartitionSortedUnique ==
    \A p \in StoreProducts :
        (merged[p].exists /\ merged[p].complete) =>
            IsStrictlyIncreasing(Timestamps(merged[p].rows))

\* a compaction has written a partition from a scratch file that was out of
\* order and held a timestamp twice, over a partition that held a row of its
\* own
C25_Witness ==
    /\ ins.pc = "truncate"
    /\ ~IsStrictlyIncreasing(Timestamps(scratch[ins.target]))
    /\ \E i, j \in 1..Len(scratch[ins.target]) :
            i < j /\ scratch[ins.target][i][1] > scratch[ins.target][j][1]
    /\ \E i, j \in 1..Len(scratch[ins.target]) :
            i < j /\ scratch[ins.target][i][1] = scratch[ins.target][j][1]
    /\ \E r \in Range(ins.prev_df) : r \notin Range(scratch[ins.target])

C30_AtomicReplace ==
    ins.pc = "idle" => \A p \in StoreProducts : merged[p].complete

\* the frames a and b hold the same rows, each as many times
SameRows(a, b) ==
    /\ Len(a) = Len(b)
    /\ \A r \in Range(a) \cup Range(b) : Count(a, r) = Count(b, r)

\* a bound that names the instant t in UTC
Utc(t) == [form |-> "datetime", wall |-> t, offset |-> 0]

\* C26: round trip.  When the first batch B of a store has been written to
\* its table, a query over [min(B.t), max(B.t)] returns the rows of B with
\* duplicate timestamps removed, and nothing else.
C26_RoundTrip ==
    [][\A symbol \in StoreProducts, data \in CoinBatches :
        LET month == MonthOf(data[Len(data)][1])
            B == buffers[<<symbol, active_month[symbol]>>]
        IN  (/\ batches = 1
             /\ data # << >>
             /\ StoreUpdate(symbol, data)
             /\ Flushes(symbol, month)) =>
                \A answer \in Query(delta', symbol,
                                     Utc(Min(TimestampSet(B))),
                                     Utc(Max(TimestampSet(B)))) :
                    /\ ~answer.raised
                    /\ \E kept \in TempFrames(B) :
                          SameRows(answer.rows, kept)]_vars

\* C27: query returns the rows of the tables of the symbol whose timestamp is
\* from the instant of start_date to the instant of end_date, both
\* included, in ascending order of timestamp.
C27_QueryInclusiveRange ==
    \A symbol \in StoreProducts, t_from \in QueryBounds,
       t_to \in QueryBounds :
        \A answer \in Query(delta, symbol, t_from, t_to) :
            /\ ~answer.raised
            /\ SameRows(answer.rows,
                        Between(ReadParquet(delta, symbol, Max(StoreMonths)),
                                Instant(t_from), Instant(t_to)))
            /\ \A i, j \in 1..Len(answer.rows) :
                  i < j => answer.rows[i][1] <= answer.rows[j][1]

\* C28: whatever batches were stored, no answer of a range query holds two
\* rows of one timestamp.
C28_QueryDeduplicated ==
    \A symbol \in StoreProducts, t_from \in QueryBounds,
       t_to \in QueryBounds :
        \A answer \in Query(delta, symbol, t_from, t_to) :
            IsStrictlyIncreasing(Timestamps(answer.rows))

\* C31: a storage error inside a compaction leaves the scratch file with all
\* its rows, and no timestamp the partition held, or the scratch file holds,
\* is missing from both tiers afterwards.
C31_FailureKeepsRows ==
    [][StorageFault =>
        /\ scratch' = scratch
        /\ TimestampSet(ins.prev_df)
             \subseteq (TimestampSet(merged'[ins.target].rows)
                          \cup TimestampSet(scratch'[ins.target]))]_vars

\* C32: when the input stream of store has ended, every buffered row has been
\* written to its table.
C32_FlushedAtEnd ==
    pc = "stored" =>
        \A key \in StoreProducts \X StoreMonths : buffers[key] = << >>

C34_DelayAfterOkOnly ==
    (IssuesRequest /\ lastReq.phase # "none" /\ lastReq.product = product) =>
        (slept <=> lastReq.tag = "ok")

C36_RaisesOnlyOnUserRange ==
    [][/\ (pc = "call" /\ pc' = "raised") => bs_start > bs_end
       /\ pc = "search" => pc' # "raised"]_vars

\* C37: the append of insert is followed by a compaction of the written
\* product exactly when its scratch file is then larger than the threshold (a
\* file at the threshold is left as it is, and the next rows appended to it
\* take it over the threshold), and when insert is about to return the
\* scratch file of the written product is no larger than the threshold.
C37_CompactsAboveThreshold ==
    [][/\ ins.pc = "append" =>
            /\ scratch'[ins.product] = scratch[ins.product] \o ins.data
            /\ (ins'.pc = "read" /\ ins'.target = ins.product)
                 <=> Len(scratch'[ins.product]) > Threshold
       /\ ins'.pc = "finish" =>
            Len(scratch'[ins'.product]) <= Threshold]_vars

\* an insert of rows is about to return without a compaction by size, its
\* scratch file exactly at the threshold
C37_Witness ==
    /\ ins.pc = "finish"
    /\ ins.ret = "append"
    /\ ins.data # << >>
    /\ Len(scratch[ins.product]) = Threshold

\* the rows a partition holds before a step: those of the file, or those
\* _compress has read from it while it is writing the file anew
Persisted(p) ==
    IF merged[p].complete THEN merged[p].rows ELSE ins.prev_df

\* C38: a row of a partition stays in it, with its values, through every
\* insert and compaction: where a scratch row has the timestamp of a
\* persisted row the persisted row is the one kept.
C38_PersistedRowKept ==
    [][\A p \in StoreProducts :
        merged'[p].complete => Range(Persisted(p)) \subseteq Range(merged'[p].rows)]_vars

\* a compaction has written a partition over one that held a row with the
\* timestamp, and other values, of a scratch row
C38_Witness ==
    /\ ins.pc = "truncate"
    /\ merged[ins.target].complete
    /\ \E r \in Range(scratch[ins.target]), q \in Range(ins.prev_df) :
          r[1] = q[1] /\ r[2] # q[2]

\* C39: on a file system that does not fail no call of insert fails: every
\* call ends by its last statement, with its product recorded as the one
\* written last and the timestamps of its rows in the scratch file or the
\* partition of the product; so does a call that first compacts the empty
\* scratch file of another product.
C39_InsertCompletes ==
    [][(ins.pc # "idle" /\ ins'.pc = "idle") =>
        /\ ins.pc = "finish"
        /\ last_used' = ins.product
        /\ TimestampSet(ins.data)
             \subseteq (TimestampSet(scratch'[ins.product])
                          \cup TimestampSet(merged'[ins.product].rows))]_vars

\* an insert of rows for one product has compacted the scratch file of
\* another, which was empty
C39_Witness ==
    /\ ins.pc = "truncate"
    /\ ins.ret = "append"
    /\ ins.product # ins.target
    /\ ins.data # << >>
    /\ scratch[ins.target] = << >>
    /\ merged[ins.target].complete

\* C40: a message whose processing ends in an exception, at a later event or
\* a later update, has changed nothing in the book.
C40_MessageAtomic ==
    \A message \in MalformedMessages \cup TornMessages :
        Handle(message).exc # "none" => After(message) = best_prices

====
